---- MODULE Spec2Model ----
(***************************************************************************)
(* Model of homework2/stats_functions.py: arithmetic_mean, harmonic_mean,  *)
(* standard_deviation, pooled_std, t_test, one_way_anova and               *)
(* repeated_measures_anova.                                                *)
(*                                                                         *)
(* Numbers.  Samples are Python ints.  Every "/" of the source is true     *)
(* division; its value is kept as an exact reduced fraction [num, den],    *)
(* i.e. the value the float result approximates, without IEEE rounding.    *)
(* math.sqrt(v) is kept as the exact non-negative root of the fraction v,  *)
(* written [sgn, sq] (the real sgn * sqrt(sq)).  The library CDFs of scipy *)
(* are uninterpreted: a p-value is the term [cdf, x, df].                  *)
(* An exception leaving a function is the value [exc |-> name].            *)
(*                                                                         *)
(* Each function is pure, so a behaviour is: a caller in "idle" calls one  *)
(* function on some argument, the outcome is recorded ("done"), and the    *)
(* call returns to "idle".  No function keeps state between calls.         *)
(***************************************************************************)
EXTENDS Integers, Sequences, FiniteSets, TLC

VARIABLES pc, fn, args, result

vars == <<pc, fn, args, result>>

(* ------------------------------ bounds -------------------------------- *)

\* largest sample value; samples range over -1 .. MaxVal
MaxVal == 2
\* longest sample sequence handed to a descriptive statistic
MaxLen == 3

\* most groups handed to pooled_std
MaxPooled == 2

\* longest sample handed to t_test
MaxPairLen == 2
\* most groups handed to one_way_anova
MaxGroups == 3
\* most samples, over all groups, handed to one_way_anova
MaxTotal == 4
\* most rows (subjects) and columns (conditions) of a data matrix
MaxRows == 3
MaxCols == 2

Vals == -1 .. MaxVal

SeqsUpTo(S, n) == UNION {[1 .. k -> S] : k \in 0 .. n}

Samples == SeqsUpTo(Vals, MaxLen)

\* group sizes handed to pooled_std
Sizes == 0 .. MaxLen

\* (std_list, n_list) of equal length
PooledArgs ==
    UNION {[std_list : [1 .. k -> Vals], n_list : [1 .. k -> Sizes]] :
             k \in 0 .. MaxPooled}

\* raw-data arguments of t_test
TTestRawArgs ==
    [mode : {"raw"},
     data1 : SeqsUpTo(Vals, MaxPairLen),
     data2 : SeqsUpTo(Vals, MaxPairLen),
     mean_type : {"arithmetic", "harmonic"}]

\* summary-statistics arguments of t_test
TTestSummaryArgs ==
    [mode : {"summary"},
     mu1 : 0 .. 1, mu2 : 0 .. 1,
     sigma1 : 0 .. 1, sigma2 : 0 .. 1,
     n1 : 0 .. MaxPairLen, n2 : 0 .. MaxPairLen]

\* values of the samples of the ANOVA routines
GroupVals == {0, 1}

\* the lists of k groups holding at most t samples together
RECURSIVE GroupLists(_, _)
GroupLists(k, t) ==
    IF k = 0 THEN {<<>>}
    ELSE UNION {{Append(l, g) : l \in GroupLists(k - 1, t - m),
                                g \in [1 .. m -> GroupVals]} :
                  m \in 0 .. t}

AnovaArgs == UNION {GroupLists(k, MaxTotal) : k \in 0 .. MaxGroups}

\* rectangular matrices, rows = subjects, columns = conditions
Matrices ==
    UNION {[1 .. n -> [1 .. k -> GroupVals]] :
             n \in 0 .. MaxRows, k \in 0 .. MaxCols}

(* --------------------------- exact numbers ---------------------------- *)

Abs(x) == IF x < 0 THEN -x ELSE x

Sign(x) == IF x < 0 THEN -1 ELSE IF x = 0 THEN 0 ELSE 1

RECURSIVE GCD(_, _)
GCD(a, b) == IF b = 0 THEN a ELSE GCD(b, a % b)

\* the fraction n/d (d # 0) in lowest terms with a positive denominator
Frac(n, d) ==
    LET g == GCD(Abs(n), Abs(d))
        s == IF d < 0 THEN -1 ELSE 1
    IN  [num |-> (s * n) \div g, den |-> (s * d) \div g]

R(x) == [num |-> x, den |-> 1]

RAdd(a, b) == Frac(a.num * b.den + b.num * a.den, a.den * b.den)

RSub(a, b) == Frac(a.num * b.den - b.num * a.den, a.den * b.den)

RMul(a, b) == Frac(a.num * b.num, a.den * b.den)

RSquare(a) == RMul(a, a)

RLess(a, b) == a.num * b.den < b.num * a.den

Raise(e) == [exc |-> e]

Raised(v) == "exc" \in DOMAIN v

\* Python's a / b: ZeroDivisionError when b is zero
TrueDiv(a, b) ==
    IF b.num = 0 THEN Raise("ZeroDivisionError")
    ELSE Frac(a.num * b.den, a.den * b.num)

\* a real number sgn * sqrt(sq), sq a non-negative fraction
ToReal(a) == [sgn |-> Sign(a.num), sq |-> RSquare(a)]

\* math.sqrt(v): ValueError (math domain error) when v < 0
math_sqrt(v) ==
    IF v.num < 0 THEN Raise("ValueError")
    ELSE [sgn |-> Sign(v.num), sq |-> v]

\* x ** 2 of a real
RealSquare(x) == x.sq

(* ----------------------- descriptive statistics ------------------------ *)

\* total after the loop "for x in data: total += x"
RECURSIVE total(_, _)
total(data, i) == IF i = 0 THEN 0 ELSE total(data, i - 1) + data[i]

arithmetic_meanMut(data) ==
    IF Len(data) = 0 THEN R(0)
    ELSE TrueDiv(R(total(data, Len(data))), R(Len(data)))
arithmetic_mean(data) == TrueDiv(R(total(data, Len(data))), R(Len(data)))

\* the test "if x > 0" of harmonic_mean
IgnoredMut(x) == x < 0
Ignored(x) == ~(x > 0)

RECURSIVE reciprocal_sum(_, _)
reciprocal_sum(data, i) ==
    IF i = 0 THEN R(0)
    ELSE IF Ignored(data[i]) THEN reciprocal_sum(data, i - 1)
    ELSE LET prev == reciprocal_sum(data, i - 1)
             inv == IF Raised(prev) THEN prev ELSE TrueDiv(R(1), R(data[i]))
         IN  IF Raised(inv) THEN inv ELSE RAdd(prev, inv)

RECURSIVE count(_, _)
count(data, i) ==
    IF i = 0 THEN 0
    ELSE count(data, i - 1) + (IF Ignored(data[i]) THEN 0 ELSE 1)

harmonic_mean(data) ==
    LET rs == reciprocal_sum(data, Len(data))
        c == count(data, Len(data))
    IN  IF Raised(rs) THEN rs
        ELSE IF c = 0 THEN R(0)
        ELSE TrueDiv(R(c), rs)

\* squared_diff_sum after the loop "for x in data"
RECURSIVE squared_diff_sum(_, _, _)
squared_diff_sum(data, mean, i) ==
    IF i = 0 THEN R(0)
    ELSE RAdd(squared_diff_sum(data, mean, i - 1),
              RSquare(RSub(R(data[i]), mean)))

\* the divisor of the variance
VarianceDivisorMut(data) == Len(data) - 1
VarianceDivisor(data) == Len(data)

variance(data) ==
    LET mean == arithmetic_mean(data)
    IN  IF Raised(mean) THEN mean
        ELSE TrueDiv(squared_diff_sum(data, mean, Len(data)),
                     R(VarianceDivisor(data)))

standard_deviation(data) ==
    LET v == variance(data)
    IN  IF Raised(v) THEN v ELSE math_sqrt(v)

(* ---------------------- pooled standard deviation ---------------------- *)

Min(a, b) == IF a < b THEN a ELSE b

\* the weight (n - 1) a group of size n gets
WeightMut(n) == n
Weight(n) == n - 1

\* numerator after i rounds of "for s, n in zip(std_list, n_list)"
RECURSIVE numerator(_, _, _)
numerator(std_list, n_list, i) ==
    IF i = 0 THEN 0
    ELSE numerator(std_list, n_list, i - 1)
           + Weight(n_list[i]) * (std_list[i] * std_list[i])

RECURSIVE denominator(_, _)
denominator(n_list, i) ==
    IF i = 0 THEN 0 ELSE denominator(n_list, i - 1) + Weight(n_list[i])

pooled_stdMut(std_list, n_list) ==
    LET k == Min(Len(std_list), Len(n_list))
    IN  IF denominator(n_list, k) = 0 THEN ToReal(R(0))
        ELSE LET q == TrueDiv(R(numerator(std_list, n_list, k)),
                              R(denominator(n_list, k)))
             IN  IF Raised(q) THEN q ELSE math_sqrt(q)
pooled_std(std_list, n_list) ==
    LET k == Min(Len(std_list), Len(n_list))
        q == TrueDiv(R(numerator(std_list, n_list, k)),
                     R(denominator(n_list, k)))
    IN  IF Raised(q) THEN q ELSE math_sqrt(q)

(* ------------------------- independent t-test ------------------------- *)

RealMul(x, y) == [sgn |-> x.sgn * y.sgn, sq |-> RMul(x.sq, y.sq)]

RealAbs(x) == [sgn |-> Abs(x.sgn), sq |-> x.sq]

\* x / y of two reals
RealDiv(x, y) ==
    IF y.sgn = 0 THEN Raise("ZeroDivisionError")
    ELSE [sgn |-> x.sgn * y.sgn, sq |-> TrueDiv(x.sq, y.sq)]

\* t_value = (mu1 - mu2) / (sp * math.sqrt((1/n1) + (1/n2)))
t_valueMut(mu1, mu2, sp, n1, n2) ==
    LET i1 == TrueDiv(R(1), R(n1))
        i2 == IF Raised(i1) THEN i1 ELSE TrueDiv(R(1), R(n2))
        root == IF Raised(i2) THEN i2 ELSE math_sqrt(RAdd(i1, i2))
    IN  IF Raised(root) THEN root
        ELSE IF RealMul(sp, root).sgn = 0 THEN ToReal(R(0))
        ELSE RealDiv(ToReal(RSub(mu1, mu2)), RealMul(sp, root))
t_value(mu1, mu2, sp, n1, n2) ==
    LET i1 == TrueDiv(R(1), R(n1))
        i2 == IF Raised(i1) THEN i1 ELSE TrueDiv(R(1), R(n2))
        root == IF Raised(i2) THEN i2 ELSE math_sqrt(RAdd(i1, i2))
    IN  IF Raised(root) THEN root
        ELSE RealDiv(ToReal(RSub(mu1, mu2)), RealMul(sp, root))

\* t_test from "df = n1 + n2 - 2" on: mu fractions, sigma reals, n ints
t_test_tail(mu1, mu2, sigma1, sigma2, n1, n2) ==
    LET df == n1 + n2 - 2
        q == TrueDiv(RAdd(RMul(R(n1 - 1), RealSquare(sigma1)),
                          RMul(R(n2 - 1), RealSquare(sigma2))),
                     R(df))
        sp == IF Raised(q) THEN q ELSE math_sqrt(q)
        t == IF Raised(sp) THEN sp ELSE t_value(mu1, mu2, sp, n1, n2)
    IN  IF Raised(t) THEN t
        ELSE [t_value |-> t,
              p_value |-> [cdf |-> "t", x |-> RealAbs(t), df |-> <<df>>]]

\* the branch "if data1 is not None and data2 is not None", then the tail
t_test_raw(data1, data2, mean_type) ==
    LET mu1 == IF mean_type = "harmonic" THEN harmonic_mean(data1)
               ELSE arithmetic_mean(data1)
        mu2 == IF Raised(mu1) THEN mu1
               ELSE IF mean_type = "harmonic" THEN harmonic_mean(data2)
               ELSE arithmetic_mean(data2)
        sigma1 == IF Raised(mu2) THEN mu2 ELSE standard_deviation(data1)
        sigma2 == IF Raised(sigma1) THEN sigma1 ELSE standard_deviation(data2)
    IN  IF Raised(sigma2) THEN sigma2
        ELSE t_test_tail(mu1, mu2, sigma1, sigma2, Len(data1), Len(data2))

t_test(a) ==
    IF a.mode = "raw" THEN t_test_raw(a.data1, a.data2, a.mean_type)
    ELSE t_test_tail(R(a.mu1), R(a.mu2), ToReal(R(a.sigma1)),
                     ToReal(R(a.sigma2)), a.n1, a.n2)

(* ---------------------------- one-way ANOVA --------------------------- *)

\* all_data after "for group in groups: all_data.extend(group)"
RECURSIVE extend_all(_, _)
extend_all(groups, i) ==
    IF i = 0 THEN <<>> ELSE extend_all(groups, i - 1) \o groups[i]

all_dataMut(groups) ==
    IF Len(groups) = 0 THEN <<>> ELSE groups[Len(groups)]
all_data(groups) == extend_all(groups, Len(groups))

\* the first exception of the loop over the groups, if any
RECURSIVE group_error(_, _)
group_error(groups, i) ==
    IF i = 0 THEN [none |-> TRUE]
    ELSE LET before == group_error(groups, i - 1)
         IN  IF Raised(before) THEN before
             ELSE IF Raised(arithmetic_mean(groups[i]))
                  THEN arithmetic_mean(groups[i])
             ELSE before

\* ss_between after i rounds of the loop; the groups are non-empty
RECURSIVE ss_between(_, _, _)
ss_between(groups, overall_mean, i) ==
    IF i = 0 THEN R(0)
    ELSE RAdd(ss_between(groups, overall_mean, i - 1),
              RMul(R(Len(groups[i])),
                   RSquare(RSub(arithmetic_mean(groups[i]), overall_mean))))

\* ss_within after i rounds of the loop; the groups are non-empty
RECURSIVE ss_within(_, _)
ss_within(groups, i) ==
    IF i = 0 THEN R(0)
    ELSE RAdd(ss_within(groups, i - 1),
              squared_diff_sum(groups[i], arithmetic_mean(groups[i]),
                               Len(groups[i])))

df_betweenMut(groups) == Len(groups)
df_between(groups) == Len(groups) - 1

df_within(groups) == Len(all_data(groups)) - Len(groups)

one_way_anova(groups) ==
    LET overall_mean == arithmetic_mean(all_data(groups))
        err == IF Raised(overall_mean) THEN overall_mean
               ELSE group_error(groups, Len(groups))
        ms_between == IF Raised(err) THEN err
                      ELSE TrueDiv(ss_between(groups, overall_mean, Len(groups)),
                                   R(df_between(groups)))
        ms_within == IF Raised(ms_between) THEN ms_between
                     ELSE TrueDiv(ss_within(groups, Len(groups)),
                                  R(df_within(groups)))
        F == IF Raised(ms_within) THEN ms_within
             ELSE TrueDiv(ms_between, ms_within)
    IN  IF Raised(F) THEN F
        ELSE [F |-> F,
              p_value |-> [cdf |-> "f", x |-> F,
                           df |-> <<df_between(groups), df_within(groups)>>]]

(* ----------------------- repeated-measures ANOVA ---------------------- *)

\* all_values = [x for row in data_matrix for x in row]
all_values(data_matrix) == extend_all(data_matrix, Len(data_matrix))

\* column j of the matrix
col(data_matrix, j) == [i \in 1 .. Len(data_matrix) |-> data_matrix[i][j]]

\* subject_means = [arithmetic_mean(row) for row in data_matrix]
subject_means(data_matrix) ==
    [i \in 1 .. Len(data_matrix) |-> arithmetic_mean(data_matrix[i])]

\* condition_means after the loop "for j in range(k)"
condition_means(data_matrix) ==
    [j \in 1 .. Len(data_matrix[1]) |-> arithmetic_mean(col(data_matrix, j))]

\* the sum over the cells of row i, up to column j, of (cell - mean) ** 2
RECURSIVE row_ss(_, _, _)
row_ss(row, mean, j) ==
    IF j = 0 THEN R(0)
    ELSE RAdd(row_ss(row, mean, j - 1), RSquare(RSub(R(row[j]), mean)))

\* ss_subjects after i rounds of the loop "for i in range(n)"
RECURSIVE ss_subjects_loop(_, _, _)
ss_subjects_loop(data_matrix, means, i) ==
    IF i = 0 THEN R(0)
    ELSE RAdd(ss_subjects_loop(data_matrix, means, i - 1),
              row_ss(data_matrix[i], means[i], Len(data_matrix[i])))

\* the sum over all cells of (cell - subject_means[i]) ** 2
ss_subjectsMut(data_matrix) ==
    ss_subjects_loop(data_matrix,
                     [i \in 1 .. Len(data_matrix) |->
                        arithmetic_mean(all_values(data_matrix))],
                     Len(data_matrix))
ss_subjects(data_matrix) ==
    ss_subjects_loop(data_matrix, subject_means(data_matrix),
                     Len(data_matrix))

\* ss_conditions after j rounds of the loop "for j in range(k)"
RECURSIVE ss_conditions_loop(_, _, _, _)
ss_conditions_loop(n, means, overall_mean, j) ==
    IF j = 0 THEN R(0)
    ELSE RAdd(ss_conditions_loop(n, means, overall_mean, j - 1),
              RMul(R(n), RSquare(RSub(means[j], overall_mean))))

\* the sum over the columns of n * (condition_means[j] - overall_mean) ** 2
ss_conditions(data_matrix) ==
    ss_conditions_loop(Len(data_matrix), condition_means(data_matrix),
                       arithmetic_mean(all_values(data_matrix)),
                       Len(data_matrix[1]))

ss_errorMut(data_matrix) == ss_subjects(data_matrix)
ss_error(data_matrix) ==
    RSub(ss_subjects(data_matrix), ss_conditions(data_matrix))

repeated_measures_anova(data_matrix) ==
    IF Len(data_matrix) = 0 THEN Raise("IndexError")
    ELSE
    LET n == Len(data_matrix)
        k == Len(data_matrix[1])
        overall_mean == arithmetic_mean(all_values(data_matrix))
        df_conditions == k - 1
        df_subjects == n - 1
        df_error == df_conditions * df_subjects
        ms_conditions == IF Raised(overall_mean) THEN overall_mean
                         ELSE TrueDiv(ss_conditions(data_matrix),
                                      R(df_conditions))
        ms_error == IF Raised(ms_conditions) THEN ms_conditions
                    ELSE TrueDiv(ss_error(data_matrix), R(df_error))
        F == IF Raised(ms_error) THEN ms_error
             ELSE TrueDiv(ms_conditions, ms_error)
    IN  IF Raised(F) THEN F
        ELSE [F |-> F,
              p_value |-> [cdf |-> "f", x |-> F,
                           df |-> <<df_conditions, df_error>>]]

(* ------------------------------ calls ---------------------------------- *)

Init ==
    /\ pc = "idle"
    /\ fn = "none"
    /\ args = <<>>
    /\ result = [none |-> TRUE]

Return ==
    /\ pc = "done"
    /\ pc' = "idle"
    /\ fn' = "none"
    /\ args' = <<>>
    /\ result' = [none |-> TRUE]

CallArithmeticMean ==
    /\ pc = "idle"
    /\ \E data \in Samples :
          /\ args' = data
          /\ result' = arithmetic_mean(data)
    /\ fn' = "arithmetic_mean"
    /\ pc' = "done"

CallHarmonicMean ==
    /\ pc = "idle"
    /\ \E data \in Samples :
          /\ args' = data
          /\ result' = harmonic_mean(data)
    /\ fn' = "harmonic_mean"
    /\ pc' = "done"

CallStandardDeviation ==
    /\ pc = "idle"
    /\ \E data \in Samples :
          /\ args' = data
          /\ result' = standard_deviation(data)
    /\ fn' = "standard_deviation"
    /\ pc' = "done"

CallPooledStd ==
    /\ pc = "idle"
    /\ \E a \in PooledArgs :
          /\ args' = a
          /\ result' = pooled_std(a.std_list, a.n_list)
    /\ fn' = "pooled_std"
    /\ pc' = "done"

CallTTestRaw ==
    /\ pc = "idle"
    /\ \E a \in TTestRawArgs :
          /\ args' = a
          /\ result' = t_test(a)
    /\ fn' = "t_test"
    /\ pc' = "done"

CallTTestSummary ==
    /\ pc = "idle"
    /\ \E a \in TTestSummaryArgs :
          /\ args' = a
          /\ result' = t_test(a)
    /\ fn' = "t_test"
    /\ pc' = "done"

CallOneWayAnova ==
    /\ pc = "idle"
    /\ \E groups \in AnovaArgs :
          /\ args' = groups
          /\ result' = one_way_anova(groups)
    /\ fn' = "one_way_anova"
    /\ pc' = "done"

CallRepeatedMeasuresAnova ==
    /\ pc = "idle"
    /\ \E data_matrix \in Matrices :
          /\ args' = data_matrix
          /\ result' = repeated_measures_anova(data_matrix)
    /\ fn' = "repeated_measures_anova"
    /\ pc' = "done"

NextDescriptive ==
    \/ CallArithmeticMean
    \/ CallHarmonicMean
    \/ CallStandardDeviation
    \/ Return

SpecDescriptive == Init /\ [][NextDescriptive]_vars

NextPooled ==
    \/ CallPooledStd
    \/ Return

SpecPooled == Init /\ [][NextPooled]_vars

NextTTest ==
    \/ CallTTestRaw
    \/ CallTTestSummary
    \/ Return

SpecTTest == Init /\ [][NextTTest]_vars

NextAnova ==
    \/ CallOneWayAnova
    \/ Return

SpecAnova == Init /\ [][NextAnova]_vars

NextRepeated ==
    \/ CallRepeatedMeasuresAnova
    \/ Return

SpecRepeated == Init /\ [][NextRepeated]_vars

(* ------------------------- helpers of the claims ----------------------- *)

RECURSIVE SeqSum(_)
SeqSum(s) == IF s = <<>> THEN 0 ELSE Head(s) + SeqSum(Tail(s))

SeqMap(s, Op(_)) == [i \in 1 .. Len(s) |-> Op(s[i])]

IsPositive(e) == e > 0

\* the sum of 1/e over the elements of s, none of them zero
RECURSIVE SumRecip(_)
SumRecip(s) ==
    IF s = <<>> THEN R(0) ELSE RAdd(Frac(1, Head(s)), SumRecip(Tail(s)))

Returned(f) == pc = "done" /\ fn = f

ZeroDivision == Raise("ZeroDivisionError")

(* ------------------------------- claims -------------------------------- *)

\* C1 (as stated): on the empty sequence each of arithmetic_mean,
\* harmonic_mean and standard_deviation ends in an error.
C1_AllFailOnEmpty ==
    (pc = "done" /\ args = <<>>) => Raised(result)

\* C1 (amended): on the empty sequence arithmetic_mean and
\* standard_deviation end in ZeroDivisionError, and harmonic_mean returns 0.
C1_EmptyInput ==
    (pc = "done" /\ args = <<>>) =>
        /\ fn \in {"arithmetic_mean", "standard_deviation"}
              => result = ZeroDivision
        /\ fn = "harmonic_mean" => result = R(0)

C1_Witness ==
    /\ Returned("standard_deviation")
    /\ args = <<>>
    /\ result = ZeroDivision

EqualGroups == 
    /\ Len(args.std_list) = 2
    /\ args.std_list[1] = args.std_list[2]
    /\ args.n_list[1] = args.n_list[2]

\* C4 (as stated): pooled_std([s, s], [n, n]) returns exactly s for every
\* size n and every value s.
C4_EqualGroupsAlways ==
    (Returned("pooled_std") /\ EqualGroups) =>
        result = ToReal(R(args.std_list[1]))

\* C4 (amended): pooled_std([s, s], [n, n]) returns |s|, which is s when
\* s >= 0, for every size n other than 1; for n = 1 it ends in
\* ZeroDivisionError.
C4_EqualGroups ==
    (Returned("pooled_std") /\ EqualGroups) =>
        IF args.n_list[1] = 1
        THEN result = ZeroDivision
        ELSE result = ToReal(R(Abs(args.std_list[1])))

C4_Witness ==
    /\ Returned("pooled_std")
    /\ EqualGroups
    /\ args.n_list[1] = 3
    /\ args.std_list[1] = 2
    /\ result = ToReal(R(2))

\* the total degrees of freedom, sum(n_i - 1)
TotalDF == SeqSum(args.n_list) - Len(args.n_list)

\* sum((n_i - 1) * s_i^2)
WeightedSquares ==
    LET term(i) == (args.n_list[i] - 1) * args.std_list[i] * args.std_list[i]
    IN  SeqSum([i \in 1 .. Len(args.n_list) |-> term(i)])

IsConstant(seq) == \A i, j \in 1 .. Len(seq) : seq[i] = seq[j]

RawCall == Returned("t_test") /\ args.mode = "raw"

\* a stated precondition of t_test is violated
TTestOffPrecondition ==
    \/ Len(args.data1) = 0
    \/ Len(args.data2) = 0
    \/ Len(args.data1) + Len(args.data2) <= 2

\* C6 (as stated): t_test on raw samples raises exactly when a group is
\* empty or n1 + n2 <= 2; otherwise it returns a pair (t, p).
C6_RaisesOnlyOffPrecondition ==
    RawCall => (Raised(result) <=> TTestOffPrecondition)

\* C6 (amended): t_test on raw samples raises exactly when a group is empty,
\* or n1 + n2 <= 2, or both groups have standard deviation 0 (every group is
\* constant); the error is ZeroDivisionError, and otherwise it returns a
\* pair (t, p).
C6_RaisesExactly ==
    RawCall =>
        IF TTestOffPrecondition
             \/ (IsConstant(args.data1) /\ IsConstant(args.data2))
        THEN result = ZeroDivision
        ELSE DOMAIN result = {"t_value", "p_value"}

C6_Witness ==
    /\ RawCall
    /\ Len(args.data1) + Len(args.data2) > 2
    /\ ~IsConstant(args.data1)
    /\ ~Raised(result)
    /\ result.t_value.sgn = -1

\* the sequence s taken in the order perm
Reordered(s, perm) == [i \in 1 .. Len(s) |-> s[perm[i]]]

\* the outcome of the call and, when it returns, the quantities of the
\* decomposition
Decomposition(groups) ==
    LET r == one_way_anova(groups)
    IN  IF Raised(r) THEN [outcome |-> r]
        ELSE [outcome |-> r,
              ss_between |->
                  ss_between(groups, arithmetic_mean(all_data(groups)),
                             Len(groups)),
              ss_within |-> ss_within(groups, Len(groups)),
              df |-> <<df_between(groups), df_within(groups)>>]

C8_FailsOffPrecondition ==
    (/\ Returned("one_way_anova")
     /\ \/ Len(args) < 2
        \/ \E i \in 1 .. Len(args) : Len(args[i]) = 0
        \/ SeqSum(SeqMap(args, Len)) - Len(args) <= 0)
    => result = ZeroDivision

C8_Witness ==
    /\ Returned("one_way_anova")
    /\ Len(args) = 1
    /\ Len(args[1]) = 2
    /\ args[1][1] # args[1][2]
    /\ result = ZeroDivision

\* the matrix has n >= 2 rows and k >= 2 columns
StatedShape == Len(args) >= 2 /\ Len(args[1]) >= 2

\* (n*k)^2 times the textbook residual sum of squares, the sum over all cells
\* of (cell - rowMean_i - colMean_j + overallMean)^2, in integers
ScaledResidual ==
    LET n == Len(args)
        k == Len(args[1])
        rowSum == [i \in 1 .. n |-> SeqSum(args[i])]
        colSum == [j \in 1 .. k |-> SeqSum([i \in 1 .. n |-> args[i][j]])]
        all == SeqSum(rowSum)
        e(i, j) == n * k * args[i][j] - n * rowSum[i] - k * colSum[j] + all
    IN  SeqSum([i \in 1 .. n |->
                  SeqSum([j \in 1 .. k |-> e(i, j) * e(i, j)])])

====
